---------------------------- MODULE Spec2Model ----------------------------
(***************************************************************************)
(* Model of copilot-lmstudio-proxy (src/src/main.rs): the JSON body        *)
(* patchers fix_request_body / fix_response_body, the SSE chunk filter     *)
(* fix_streaming_chunk, sanitize_response_headers, and the request state   *)
(* machine of proxy_handler.                                               *)
(*                                                                         *)
(* Bytes.  A byte string (axum Bytes, a header value) is a sequence of     *)
(* lexemes; the byte string it stands for is the concatenation of the      *)
(* lexemes, e.g. <<"data: ", "{", "\"usage\"", ":", "{", "}", "}", "\n">>  *)
(* is  data: {"usage":{}}\n .  The lexeme InvalidByte stands for a byte    *)
(* that is not valid UTF-8 (and not visible ASCII in a header value).      *)
(*                                                                         *)
(* JSON.  serde_json::Value is a tagged record [t, v]; an object is a      *)
(* function from key to Value (serde_json's default BTreeMap: one value    *)
(* per key, serialised in the byte order of the keys).                     *)
(***************************************************************************)
EXTENDS Integers, Sequences, FiniteSets, TLC

VARIABLES
    \* --- proxy_handler, one inbound request (main.rs 94-237) ---
    config,             \* CONFIG, set once in main before serving
    pc,                 \* position of the handler: its await points
    parts,              \* inbound request head: method, path, query, headers
    body_bytes,         \* outcome of body.collect() (None before)
    upstream_req,       \* the request handed to reqwest (None before)
    upstream_response,  \* what the upstream answered (None before)
    response,           \* what proxy_handler returned to axum (None before)
    upstream_chunks,    \* streaming: items the upstream stream yielded so far
    client_chunks,      \* streaming: items the mapped stream yielded so far
    sent,               \* the requests send() was called on, in order
    \* --- main and the tasks axum::serve runs (main.rs 41-92) ---
    http_client,        \* HTTP_CLIENT, set once in main before serving
    main,               \* position of main
    tasks,              \* the handlers in flight, one record per request
    \* --- a pure function applied on its own ---
    fn,                 \* the function under application
    arg,                \* its first argument
    ret                 \* the results of its successive applications

vars == <<config, pc, parts, body_bytes, upstream_req, upstream_response, response,
          upstream_chunks, client_chunks, sent, http_client, main, tasks,
          fn, arg, ret>>

serverVars == <<http_client, main, tasks>>

handlerVars == <<config, pc, parts, body_bytes, upstream_req, upstream_response,
                 response, upstream_chunks, client_chunks, sent, serverVars>>

callVars == <<fn, arg, ret>>

(***************************************************************************)
(* Bounds of the model.                                                    *)
(***************************************************************************)
MaxTools == 2
MaxApply == 2
MaxChunks == 2
MaxPrefix == 2

(***************************************************************************)
(* Lexemes.                                                                *)
(***************************************************************************)
\* The string contents the model draws from, in byte order (the order of
\* BTreeMap<String, Value>, which serde_json::to_vec emits).
SortedStrings ==
    << "cached_tokens", "f", "foo", "function", "input_tokens_details", "m",
       "model", "name", "object", "output_tokens_details", "parameters",
       "prompt_tokens", "properties", "reasoning_tokens", "required",
       "response", "response.completed", "string", "tools", "total_tokens",
       "type", "usage", "x" >>

Strings == { SortedStrings[i] : i \in 1..Len(SortedStrings) }

\* The JSON string literal of content s.
Quote(s) == "\"" \o s \o "\""

StringLexemes == { Quote(s) : s \in Strings }

\* The content of a string literal.
UnquoteTable == [lx \in StringLexemes |-> CHOOSE s \in Strings : Quote(s) = lx]
Unquote(lx) == UnquoteTable[lx]

\* Number literals; serde_json reads "1e2" as the f64 100.0 and writes it back
\* as 100.0, integers are written as read.
NumberLexemes == { "0", "1", "3", "42", "1e2", "100.0" }

ParseNumber(lx) == IF lx = "1e2" THEN "100.0" ELSE lx

\* JSON whitespace, which is also what str::trim removes.
Whitespace == { " ", "\n", "\t", "\r" }

InvalidByte == "\\xFF"

(***************************************************************************)
(* serde_json::Value.                                                      *)
(***************************************************************************)
Null == [t |-> "null", v |-> "null"]
Bool(b) == [t |-> "bool", v |-> b]
Number(n) == [t |-> "num", v |-> n]
String(s) == [t |-> "str", v |-> s]
Array(es) == [t |-> "arr", v |-> es]
Object(m) == [t |-> "obj", v |-> m]

EmptyMap == [k \in {} |-> Null]

is_object(j) == j.t = "obj"
is_array(j) == j.t = "arr"

\* Map::contains_key
contains_key(m, k) == k \in DOMAIN m

\* Map::insert: replaces the value of a key that is present.
insert(m, k, val) == [x \in (DOMAIN m) \cup {k} |-> IF x = k THEN val ELSE m[x]]

\* Value::get / get_mut with a string index: Some only on an object that has
\* the key.
has(j, k) == is_object(j) /\ contains_key(j.v, k)

\* json!({}) and the two defaults of the usage fix.
EmptyObject == Object(EmptyMap)
ObjectString == String("object")
CachedTokensDefault == Object(insert(EmptyMap, "cached_tokens", Number("0")))
ReasoningTokensDefault == Object(insert(EmptyMap, "reasoning_tokens", Number("0")))

(***************************************************************************)
(* serde_json::from_slice / from_str: a recursive-descent parse of the     *)
(* lexemes.  Whitespace is skipped before every value and after every      *)
(* token; a trailing comma, a missing colon, an unclosed bracket, an empty *)
(* input or any lexeme after the value is an error.  A repeated key keeps  *)
(* the last value.                                                         *)
(***************************************************************************)
SkipWhitespace(b, i) ==
    CHOOSE j \in i..(Len(b) + 1) :
        /\ \A k \in i..(j - 1) : b[k] \in Whitespace
        /\ (j = Len(b) + 1 \/ b[j] \notin Whitespace)

ParseFail == [ok |-> FALSE, val |-> Null, next |-> 0]
ParseOk(val, next) == [ok |-> TRUE, val |-> val, next |-> next]

RECURSIVE ParseValue(_, _), ParseElements(_, _, _), ParseMembers(_, _, _)

ParseValue(b, i0) ==
    LET i == SkipWhitespace(b, i0) IN
    IF i > Len(b) THEN ParseFail
    ELSE LET c == b[i] IN
         CASE c = "null" -> ParseOk(Null, i + 1)
           [] c \in {"true", "false"} -> ParseOk(Bool(c), i + 1)
           [] c \in NumberLexemes -> ParseOk(Number(ParseNumber(c)), i + 1)
           [] c \in StringLexemes -> ParseOk(String(Unquote(c)), i + 1)
           [] c = "[" ->
                LET j == SkipWhitespace(b, i + 1) IN
                IF j <= Len(b) /\ b[j] = "]"
                THEN ParseOk(Array(<<>>), j + 1)
                ELSE ParseElements(b, i + 1, <<>>)
           [] c = "{" ->
                LET j == SkipWhitespace(b, i + 1) IN
                IF j <= Len(b) /\ b[j] = "}"
                THEN ParseOk(EmptyObject, j + 1)
                ELSE ParseMembers(b, i + 1, EmptyMap)
           [] OTHER -> ParseFail

ParseElements(b, i, acc) ==
    LET e == ParseValue(b, i) IN
    IF ~e.ok THEN ParseFail
    ELSE LET j == SkipWhitespace(b, e.next) IN
         IF j > Len(b) THEN ParseFail
         ELSE CASE b[j] = "," -> ParseElements(b, j + 1, Append(acc, e.val))
                [] b[j] = "]" -> ParseOk(Array(Append(acc, e.val)), j + 1)
                [] OTHER -> ParseFail

ParseMembers(b, i, acc) ==
    LET k == SkipWhitespace(b, i) IN
    IF k > Len(b) \/ b[k] \notin StringLexemes THEN ParseFail
    ELSE LET c == SkipWhitespace(b, k + 1) IN
         IF c > Len(b) \/ b[c] # ":" THEN ParseFail
         ELSE LET e == ParseValue(b, c + 1) IN
              IF ~e.ok THEN ParseFail
              ELSE LET j == SkipWhitespace(b, e.next)
                       m == insert(acc, Unquote(b[k]), e.val) IN
                   IF j > Len(b) THEN ParseFail
                   ELSE CASE b[j] = "," -> ParseMembers(b, j + 1, m)
                          [] b[j] = "}" -> ParseOk(Object(m), j + 1)
                          [] OTHER -> ParseFail

\* Result<Value, serde_json::Error>
from_slice(b) ==
    LET r == ParseValue(b, 1) IN
    IF r.ok /\ SkipWhitespace(b, r.next) > Len(b)
    THEN [ok |-> TRUE, val |-> r.val]
    ELSE [ok |-> FALSE, val |-> Null]

(***************************************************************************)
(* serde_json::to_vec / to_string: the compact form, no whitespace, the    *)
(* members of an object in the byte order of their keys.                   *)
(***************************************************************************)
RECURSIVE to_vec(_), ElementsToVec(_, _), MembersToVec(_, _, _)

to_vec(j) ==
    CASE j.t = "null" -> <<"null">>
      [] j.t = "bool" -> <<j.v>>
      [] j.t = "num" -> <<j.v>>
      [] j.t = "str" -> <<Quote(j.v)>>
      [] j.t = "arr" -> <<"[">> \o ElementsToVec(j.v, 1) \o <<"]">>
      [] j.t = "obj" -> <<"{">> \o MembersToVec(j.v, 1, TRUE) \o <<"}">>

ElementsToVec(es, i) ==
    IF i > Len(es) THEN <<>>
    ELSE (IF i > 1 THEN <<",">> ELSE <<>>) \o to_vec(es[i])
         \o ElementsToVec(es, i + 1)

\* the members from the i-th string of SortedStrings on; first: none emitted yet
MembersToVec(m, i, first) ==
    IF i > Len(SortedStrings) THEN <<>>
    ELSE LET k == SortedStrings[i] IN
         IF k \in DOMAIN m
         THEN (IF first THEN <<>> ELSE <<",">>) \o <<Quote(k), ":">>
              \o to_vec(m[k]) \o MembersToVec(m, i + 1, FALSE)
         ELSE MembersToVec(m, i + 1, first)

\* Result<Bytes, Box<dyn Error>>
Ok(b) == [ok |-> TRUE, val |-> b]
Err == [ok |-> FALSE, val |-> <<>>]


(***************************************************************************)
(* fix_request_body (main.rs 255-291).                                     *)
(***************************************************************************)
\* Variant of fix_parameters that sets type = "object" on every object, also
\* over a type that is there.
fix_parameters_overwrite(parameters) ==
    IF is_object(parameters)
    THEN LET typed == insert(parameters.v, "type", ObjectString) IN
         IF ~contains_key(typed, "properties")
         THEN Object(insert(typed, "properties", EmptyObject))
         ELSE Object(typed)
    ELSE parameters

\* Variant of fix_parameters with the two inserts in the branches of one
\* test: properties when missing, type only otherwise.
fix_parameters_else(parameters) ==
    IF is_object(parameters) /\ ~contains_key(parameters.v, "type")
    THEN IF ~contains_key(parameters.v, "properties")
         THEN Object(insert(parameters.v, "properties", EmptyObject))
         ELSE Object(insert(parameters.v, "type", ObjectString))
    ELSE parameters

\* lines 273-282: an object without "type" gets type = "object" and, if it
\* has none, properties = {}; anything else is left alone.
fix_parameters(parameters) ==
    IF is_object(parameters) /\ ~contains_key(parameters.v, "type")
    THEN LET typed == insert(parameters.v, "type", ObjectString) IN
         IF ~contains_key(typed, "properties")
         THEN Object(insert(typed, "properties", EmptyObject))
         ELSE Object(typed)
    ELSE parameters

\* Variant of fix_tool that knows the nested form only: tool.parameters is
\* never looked at.
fix_tool_nested_only(tool) ==
    IF has(tool, "function") /\ has(tool.v["function"], "parameters")
    THEN LET function == tool.v["function"] IN
         Object([tool.v EXCEPT !["function"] =
             Object([function.v EXCEPT !["parameters"] =
                 fix_parameters(function.v["parameters"])])])
    ELSE tool

\* lines 265-283: parameters_ref is function.parameters when the tool has a
\* "function" key (None if that value has no "parameters"), else
\* tool.parameters.
fix_tool(tool) ==
    IF has(tool, "function")
    THEN LET function == tool.v["function"] IN
         IF has(function, "parameters")
         THEN Object([tool.v EXCEPT !["function"] =
                  Object([function.v EXCEPT !["parameters"] =
                      fix_parameters(function.v["parameters"])])])
         ELSE tool
    ELSE IF has(tool, "parameters")
         THEN Object([tool.v EXCEPT !["parameters"] =
                  fix_parameters(tool.v["parameters"])])
         ELSE tool

\* lines 259-288: the tools fix on the parsed document.
patch_request(json) ==
    IF has(json, "tools") /\ is_array(json.v["tools"])
    THEN LET tools == json.v["tools"].v IN
         Object([json.v EXCEPT !["tools"] =
             Array([i \in 1..Len(tools) |-> fix_tool(tools[i])])])
    ELSE json

fix_request_body(body) ==
    LET parsed == from_slice(body) IN
    IF ~parsed.ok THEN Err
    ELSE Ok(to_vec(patch_request(parsed.val)))

(***************************************************************************)
(* fix_response_body (main.rs 293-322).                                    *)
(***************************************************************************)
\* Variant of usage_details that writes the defaults unconditionally.
usage_details_overwrite(usage) ==
    insert(insert(usage, "input_tokens_details", CachedTokensDefault),
           "output_tokens_details", ReasoningTokensDefault)

\* lines 300-314
usage_details(usage) ==
    LET u1 == IF ~contains_key(usage, "input_tokens_details")
              THEN insert(usage, "input_tokens_details", CachedTokensDefault)
              ELSE usage
    IN IF ~contains_key(u1, "output_tokens_details")
       THEN insert(u1, "output_tokens_details", ReasoningTokensDefault)
       ELSE u1

\* lines 297-319: the usage fix on the parsed document.
patch_response(json) ==
    IF has(json, "usage") /\ is_object(json.v["usage"])
    THEN Object([json.v EXCEPT !["usage"] =
             Object(usage_details(json.v["usage"].v))])
    ELSE json

fix_response_body(body) ==
    LET parsed == from_slice(body) IN
    IF ~parsed.ok THEN Err
    ELSE Ok(to_vec(patch_response(parsed.val)))

(***************************************************************************)
(* fix_streaming_chunk (main.rs 324-375).                                  *)
(***************************************************************************)
DataPrefix == "data: "
DoneMarker == <<"[", "DONE", "]">>

\* std::str::from_utf8(chunk) is Ok
from_utf8_ok(chunk) == \A i \in 1..Len(chunk) : chunk[i] # InvalidByte

\* The number of leading lexemes of s that spell "data: ": the lexeme
\* "data: ", or "data:" followed by " "; 0 when s does not start with it.
data_prefix_len(s) ==
    IF Len(s) >= 1 /\ s[1] = DataPrefix THEN 1
    ELSE IF Len(s) >= 2 /\ s[1] = "data:" /\ s[2] = " " THEN 2
    ELSE 0

\* str::starts_with("data: ")
starts_with_data(s) == data_prefix_len(s) > 0

\* str::trim_start_matches("data: "): removes EVERY leading repetition.
RECURSIVE trim_start_matches_data(_)
trim_start_matches_data(s) ==
    IF starts_with_data(s)
    THEN trim_start_matches_data(SubSeq(s, data_prefix_len(s) + 1, Len(s)))
    ELSE s

\* str::trim: the whitespace at both ends goes, also the space that ends
\* the lexeme "data: ".
trim(s) ==
    LET inner == { i \in 1..Len(s) : s[i] \notin Whitespace } IN
    IF inner = {} THEN <<>>
    ELSE LET lo == CHOOSE i \in inner : \A k \in inner : i <= k
             hi == CHOOSE i \in inner : \A k \in inner : k <= i
         IN IF s[hi] = DataPrefix
            THEN SubSeq(s, lo, hi - 1) \o <<"data:">>
            ELSE SubSeq(s, lo, hi)

\* Variant of streaming_usage_details that writes the defaults unconditionally.
streaming_usage_details_overwrite(usage) ==
    insert(insert(usage, "input_tokens_details", CachedTokensDefault),
           "output_tokens_details", ReasoningTokensDefault)

\* lines 352-365
streaming_usage_details(usage) ==
    LET u1 == IF ~contains_key(usage, "input_tokens_details")
              THEN insert(usage, "input_tokens_details", CachedTokensDefault)
              ELSE usage
    IN IF ~contains_key(u1, "output_tokens_details")
       THEN insert(u1, "output_tokens_details", ReasoningTokensDefault)
       ELSE u1

\* lines 349-350: json.response exists and response.usage is an object
has_response_usage(json) ==
    /\ has(json, "response")
    /\ has(json.v["response"], "usage")
    /\ is_object(json.v["response"].v["usage"])

\* lines 346-366: the document after the fix
patch_streaming(json) ==
    IF has_response_usage(json)
    THEN LET resp == json.v["response"] IN
         Object([json.v EXCEPT !["response"] =
             Object([resp.v EXCEPT !["usage"] =
                 Object(streaming_usage_details(resp.v["usage"].v))])])
    ELSE json

\* Variant of streaming_fixed that is set whenever response.usage is an
\* object.
streaming_fixed_any_usage(json) == has_response_usage(json)

\* lines 346-366: the flag `fixed`
streaming_fixed(json) ==
    /\ has_response_usage(json)
    /\ LET usage == json.v["response"].v["usage"].v IN
       \/ ~contains_key(usage, "input_tokens_details")
       \/ ~contains_key(usage, "output_tokens_details")

fix_streaming_chunk(chunk) ==
    IF ~from_utf8_ok(chunk) THEN Err
    ELSE IF ~starts_with_data(chunk) THEN Ok(chunk)
    ELSE LET data_line == trim(trim_start_matches_data(chunk)) IN
         IF data_line = DoneMarker THEN Ok(chunk)
         ELSE LET parsed == from_slice(data_line) IN
              IF ~parsed.ok THEN Ok(chunk)
              ELSE IF streaming_fixed(parsed.val)
                   THEN Ok(<<DataPrefix>> \o to_vec(patch_streaming(parsed.val))
                           \o <<"\n", "\n">>)
                   ELSE Ok(chunk)

\* main.rs 198-204, the closure mapped over the upstream stream, on Ok(chunk):
\* the fixed chunk, or the chunk itself when fix_streaming_chunk fails.
filter_chunk(chunk) ==
    LET fixed == fix_streaming_chunk(chunk) IN
    IF fixed.ok THEN fixed.val ELSE chunk

(***************************************************************************)
(* Headers.  A HeaderMap is a function from lower-case header name to the  *)
(* sequence of its values; a value is a byte string.                       *)
(***************************************************************************)
\* HeaderMap::remove: drops the name with all its values.
remove(headers, name) == [n \in (DOMAIN headers) \ {name} |-> headers[n]]

\* Variant of sanitize_response_headers that leaves transfer-encoding in.
sanitize_response_headers_two(headers) ==
    remove(remove(headers, "content-encoding"), "content-length")

\* main.rs 377-382
sanitize_response_headers(headers) ==
    remove(remove(remove(headers, "content-encoding"), "transfer-encoding"),
           "content-length")

\* HeaderValue::to_str is Ok: every byte is visible ASCII
to_str_ok(value) == \A i \in 1..Len(value) : value[i] # InvalidByte

\* str::contains
contains(value, needle) == \E i \in 1..Len(value) : value[i] = needle

\* headers.get("content-type").and_then(to_str.ok).map(contains).unwrap_or(false);
\* HeaderMap::get is the first value of the name.
content_type_contains(headers, needle) ==
    /\ "content-type" \in DOMAIN headers
    /\ to_str_ok(headers["content-type"][1])
    /\ contains(headers["content-type"][1], needle)

\* main.rs 239-245
is_json_request(headers) == content_type_contains(headers, "application/json")

\* main.rs 247-253
is_json_response(headers) == content_type_contains(headers, "application/json")

\* Variant of is_streaming that looks at every content-type value, as bytes.
is_streaming_any_value(headers) ==
    /\ "content-type" \in DOMAIN headers
    /\ \E i \in 1..Len(headers["content-type"]) :
          contains(headers["content-type"][i], "text/event-stream")

\* main.rs 186-190
is_streaming(headers) == content_type_contains(headers, "text/event-stream")

(***************************************************************************)
(* Inputs: JSON texts built from lexemes.                                  *)
(***************************************************************************)
RECURSIVE Join(_, _)
Join(texts, sep) ==
    IF texts = <<>> THEN <<>>
    ELSE IF Len(texts) = 1 THEN texts[1]
    ELSE texts[1] \o sep \o Join(Tail(texts), sep)

ObjText(members) == <<"{">> \o Join(members, <<",">>) \o <<"}">>
ArrText(elements) == <<"[">> \o Join(elements, <<",">>) \o <<"]">>
Member(k, text) == <<Quote(k), ":">> \o text
StrText(s) == <<Quote(s)>>
NullText == <<"null">>

\* The same document written with whitespace: a space after every colon and
\* comma, a newline inside the braces and at the end.
RECURSIVE Spaced(_)
Spaced(text) ==
    IF text = <<>> THEN <<"\n">>
    ELSE LET c == Head(text) IN
         (CASE c \in {":", ","} -> <<c, " ">>
            [] c = "{" -> <<c, "\n">>
            [] c = "}" -> <<"\t", c>>
            [] OTHER -> <<c>>) \o Spaced(Tail(text))

\* Tool parameter schemas.
FooSchema == ObjText(<<Member("foo", ObjText(<<Member("type", StrText("string"))>>))>>)
ParamEmpty == ObjText(<<>>)
ParamTyped == ObjText(<<Member("type", StrText("object"))>>)
ParamTexts ==
    { ParamEmpty,
      ObjText(<<Member("properties", FooSchema)>>),
      ParamTyped,
      ObjText(<<Member("type", StrText("object")), Member("properties", FooSchema)>>),
      ObjText(<<Member("type", NullText)>>),
      ObjText(<<Member("properties", NullText)>>),
      StrText("x") }

NestedTool(p) == ObjText(<<Member("function", ObjText(<<Member("parameters", p)>>))>>)
FlatTool(p) == ObjText(<<Member("name", StrText("f")), Member("parameters", p)>>)

FlatParamTexts ==
    { ParamEmpty,
      ObjText(<<Member("properties", FooSchema)>>),
      ObjText(<<Member("type", StrText("object")), Member("properties", FooSchema)>>),
      NullText }

ToolTexts ==
    { NestedTool(p) : p \in ParamTexts } \cup { FlatTool(p) : p \in FlatParamTexts }
    \cup
    { \* both forms: only function.parameters is looked at
      ObjText(<<Member("function", ObjText(<<Member("parameters", ParamEmpty)>>)),
                Member("parameters", ParamEmpty)>>),
      ObjText(<<Member("parameters", ParamEmpty),
                Member("function", ObjText(<<Member("parameters", ParamTyped)>>))>>),
      \* a function key whose value holds no parameters
      ObjText(<<Member("function", ObjText(<<Member("name", StrText("f"))>>)),
                Member("parameters", ParamEmpty)>>),
      ObjText(<<Member("function", StrText("x")), Member("parameters", ParamEmpty)>>),
      \* a tool that is no object
      StrText("x") }

ToolLists == UNION { [1..n -> ToolTexts] : n \in 0..MaxTools }

ShortToolLists == UNION { [1..n -> ToolTexts] : n \in 0..1 }

ToolListBodies == { ObjText(<<Member("tools", ArrText(ts))>>) : ts \in ToolLists }

OtherRequestBodies ==
    { ObjText(<<Member("model", StrText("m")), Member("tools", ArrText(ts))>>) :
             ts \in ShortToolLists }
    \cup { Spaced(ObjText(<<Member("tools", ArrText(ts)), Member("x", <<"1e2">>)>>)) :
             ts \in ShortToolLists }
    \cup
    { \* tools that is no array, no tools, a document that is no object
      ObjText(<<Member("tools", FlatTool(ParamEmpty))>>),
      ObjText(<<Member("tools", NullText)>>),
      ObjText(<<Member("model", StrText("m"))>>),
      ArrText(<<FlatTool(ParamEmpty)>>),
      StrText("tools"),
      \* a repeated key: the last one counts
      ObjText(<<Member("tools", NullText), Member("tools", ArrText(<<FlatTool(ParamEmpty)>>))>>),
      \* a tool nested deeper than the top-level array
      ObjText(<<Member("x", ObjText(<<Member("tools", ArrText(<<FlatTool(ParamEmpty)>>))>>))>>) }

\* Usage blocks.
CachedThree == ObjText(<<Member("cached_tokens", <<"3">>)>>)
ReasoningThree == ObjText(<<Member("reasoning_tokens", <<"3">>)>>)
UsageTexts ==
    { ObjText(<<>>),
      ObjText(<<Member("prompt_tokens", <<"42">>)>>),
      ObjText(<<Member("input_tokens_details", CachedThree)>>),
      ObjText(<<Member("output_tokens_details", ReasoningThree)>>),
      ObjText(<<Member("output_tokens_details", ReasoningThree),
                Member("input_tokens_details", CachedThree)>>),
      ObjText(<<Member("input_tokens_details", NullText),
                Member("total_tokens", <<"1e2">>)>>),
      ObjText(<<Member("output_tokens_details", <<"0">>),
                Member("input_tokens_details", ObjText(<<>>))>>),
      NullText, StrText("x"), ArrText(<<>>) }

ResponseBodies ==
    { ObjText(<<Member("usage", u)>>) : u \in UsageTexts }
    \cup { ObjText(<<Member("model", StrText("m")), Member("usage", u)>>) : u \in UsageTexts }
    \cup { Spaced(ObjText(<<Member("usage", u), Member("model", StrText("m"))>>)) :
             u \in UsageTexts }
    \cup { ObjText(<<Member("response", ObjText(<<Member("usage", u)>>))>>) : u \in UsageTexts }
    \cup
    { ObjText(<<Member("model", StrText("m"))>>),
      ArrText(<<ObjText(<<Member("usage", ObjText(<<>>))>>)>>),
      <<"true">>,
      ObjText(<<Member("usage", ObjText(<<>>)), Member("usage", NullText)>>),
      ObjText(<<Member("usage", NullText), Member("usage", ObjText(<<>>))>>) }

\* Bodies serde_json rejects.
InvalidBodies ==
    { <<"{">>,
      <<" ">>,
      <<InvalidByte>>,
      <<"{", "}", "{", "}">>,
      <<"{", Quote("tools"), ":", "[", "]", ",", "}">>,
      <<"{", Quote("tools"), "[", "]", "}">>,
      <<"{", Quote("usage"), ":", "{", "}">>,
      <<"[", "DONE", "]">>,
      ObjText(<<Member("usage", ObjText(<<>>))>>) \o <<InvalidByte>> }

RequestBodies == ToolListBodies \cup OtherRequestBodies

Bodies == RequestBodies \cup ResponseBodies \cup InvalidBodies

\* SSE chunks: a prefix, a payload, a line ending.
RECURSIVE Repeat(_, _)
Repeat(lx, n) == IF n = 0 THEN <<>> ELSE <<lx>> \o Repeat(lx, n - 1)

ChunkPrefixes ==
    { Repeat(DataPrefix, n) : n \in 0..MaxPrefix }
    \cup { <<DataPrefix, " ">>, <<" ", DataPrefix>>, <<"data:">>, <<"data:", " ">>,
           <<"event: x", "\n", DataPrefix>> }

ChunkEndings == { <<"\n", "\n">>, <<>>, <<"\n">>, <<" ", "\r", "\n", "\r", "\n">> }

ResponseUsage(u) == ObjText(<<Member("response", ObjText(<<Member("usage", u)>>))>>)

EventPayloads ==
    { ResponseUsage(u) : u \in UsageTexts }
    \cup { Spaced(ObjText(<<Member("type", StrText("response.completed")),
                            Member("response", ObjText(<<Member("usage", u),
                                                         Member("model", StrText("m"))>>))>>)) :
             u \in UsageTexts }
    \cup
    { \* a flat usage, with and without response.usage
      ObjText(<<Member("usage", ObjText(<<>>))>>),
      ObjText(<<Member("usage", ObjText(<<>>)),
                Member("response", ObjText(<<Member("usage",
                    ObjText(<<Member("input_tokens_details", CachedThree)>>))>>))>>),
      \* a response that is no object, or holds no usage
      ObjText(<<Member("response", NullText)>>),
      ObjText(<<Member("response", ArrText(<<ObjText(<<Member("usage", ObjText(<<>>))>>)>>))>>),
      ObjText(<<Member("response", ObjText(<<Member("model", StrText("m"))>>))>>),
      \* payloads that are JSON but no object
      ArrText(<<ResponseUsage(ObjText(<<>>))>>), StrText("x"), <<"42">>,
      \* payloads that are not JSON
      DoneMarker,
      <<>>,
      <<"{", Quote("response"), ":">>,
      <<"hello">>,
      ResponseUsage(ObjText(<<>>)) \o <<"\n", "\n", DataPrefix>> \o ResponseUsage(ObjText(<<>>)),
      ResponseUsage(ObjText(<<>>)) \o <<"\n", "id: 1">>,
      ResponseUsage(ObjText(<<>>)) \o <<InvalidByte>>,
      <<InvalidByte>> }

Chunks ==
    { pre \o payload \o ending :
        pre \in ChunkPrefixes, payload \in EventPayloads, ending \in ChunkEndings }

(***************************************************************************)
(* A call record of the handler that is not there yet.                     *)
(***************************************************************************)
None == [some |-> FALSE]

HandlerIdle ==
    /\ config = None
    /\ pc = "idle"
    /\ parts = None
    /\ body_bytes = None
    /\ upstream_req = None
    /\ upstream_response = None
    /\ response = None
    /\ upstream_chunks = <<>>
    /\ client_chunks = <<>>
    /\ sent = <<>>
    /\ http_client = None
    /\ main = "idle"
    /\ tasks = <<>>

\* The argument of the next application: the first argument, then the
\* previous result.
NextArg == IF ret = <<>> THEN arg ELSE ret[Len(ret)].val

CanApply ==
    /\ Len(ret) < MaxApply
    /\ IF ret = <<>> THEN TRUE ELSE ret[Len(ret)].ok

(***************************************************************************)
(* SpecPatch: fix_request_body and fix_response_body applied to a body,    *)
(* and again to their own output.                                          *)
(***************************************************************************)
InitPatch ==
    /\ HandlerIdle
    /\ \/ fn = "fix_request_body" /\ arg \in Bodies
       \/ fn = "fix_response_body"
          /\ arg \in ResponseBodies \cup OtherRequestBodies \cup InvalidBodies
    /\ ret = <<>>

CallFixRequestBody ==
    /\ fn = "fix_request_body"
    /\ CanApply
    /\ ret' = Append(ret, fix_request_body(NextArg))
    /\ UNCHANGED <<fn, arg, handlerVars>>

CallFixResponseBody ==
    /\ fn = "fix_response_body"
    /\ CanApply
    /\ ret' = Append(ret, fix_response_body(NextArg))
    /\ UNCHANGED <<fn, arg, handlerVars>>

NextPatch == CallFixRequestBody \/ CallFixResponseBody

SpecPatch == InitPatch /\ [][NextPatch]_vars

(***************************************************************************)
(* SpecChunk: the stream's closure applied to one chunk, and again to what *)
(* it yielded.  A result records whether fix_streaming_chunk returned Ok   *)
(* and the item the closure yields.                                        *)
(***************************************************************************)
InitChunk ==
    /\ HandlerIdle
    /\ fn = "fix_streaming_chunk"
    /\ arg \in Chunks
    /\ ret = <<>>

CallFixStreamingChunk ==
    /\ fn = "fix_streaming_chunk"
    /\ CanApply
    /\ ret' = Append(ret, [ok |-> fix_streaming_chunk(NextArg).ok,
                           val |-> filter_chunk(NextArg)])
    /\ UNCHANGED <<fn, arg, handlerVars>>

NextChunk == CallFixStreamingChunk

SpecChunk == InitChunk /\ [][NextChunk]_vars

(***************************************************************************)
(* SpecHeaders: sanitize_response_headers applied to a header map.         *)
(***************************************************************************)
HeaderNames ==
    { "content-encoding", "content-length", "transfer-encoding", "content-type",
      "set-cookie", "x-request-id", "content-language" }

\* What a header holds when present: its values in order.
HeaderValues(name, alt) ==
    CASE name = "content-encoding" -> IF alt THEN <<<<"gzip">>, <<"br">>>> ELSE <<<<"gzip">>>>
      [] name = "content-length" -> <<<<"42">>>>
      [] name = "transfer-encoding" -> IF alt THEN <<<<"gzip", ", ", "chunked">>>> ELSE <<<<"chunked">>>>
      [] name = "content-type" -> IF alt THEN <<<<"text/event-stream">>>> ELSE <<<<"application/json">>>>
      [] name = "set-cookie" -> IF alt THEN <<<<"a=1">>, <<"b=2">>>> ELSE <<<<"a=1">>>>
      [] OTHER -> <<<<"x">>>>

HeaderMaps ==
    { [n \in present |-> HeaderValues(n, n \in alt)] :
        present \in SUBSET HeaderNames,
        alt \in SUBSET {"content-encoding", "transfer-encoding", "set-cookie"} }

InitHeaders ==
    /\ HandlerIdle
    /\ fn = "sanitize_response_headers"
    /\ arg \in HeaderMaps
    /\ ret = <<>>

CallSanitizeResponseHeaders ==
    /\ fn = "sanitize_response_headers"
    /\ CanApply
    /\ ret' = Append(ret, Ok(sanitize_response_headers(NextArg)))
    /\ UNCHANGED <<fn, arg, handlerVars>>

NextHeaders == CallSanitizeResponseHeaders

SpecHeaders == InitHeaders /\ [][NextHeaders]_vars

(***************************************************************************)
(* proxy_handler (main.rs 94-237), one inbound request.  The handler is    *)
(* cut at its await points: body.collect() (113), send() (170), bytes()    *)
(* (214), and each poll of the mapped stream (198-204).                    *)
(***************************************************************************)
EmptyHeaders == [n \in {} |-> <<>>]

\* Variant of fixed_body_bytes that sends nothing when the fix fails.
fixed_body_bytes_or_empty(headers, body) ==
    IF body # <<>> /\ is_json_request(headers)
    THEN LET fixed == fix_request_body(body) IN
         IF fixed.ok THEN fixed.val ELSE <<>>
    ELSE body

\* Variant of fixed_body_bytes that fixes every non-empty body, whatever the
\* content-type.
fixed_body_bytes_any_type(headers, body) ==
    IF body # <<>>
    THEN LET fixed == fix_request_body(body) IN
         IF fixed.ok THEN fixed.val ELSE body
    ELSE body

\* lines 123-134: the body handed to the upstream request.
fixed_body_bytes(headers, body) ==
    IF body # <<>> /\ is_json_request(headers)
    THEN LET fixed == fix_request_body(body) IN
         IF fixed.ok THEN fixed.val ELSE body
    ELSE body

\* str::trim_end_matches('/')
RECURSIVE trim_end_slashes(_)
trim_end_slashes(url) ==
    IF url # <<>> /\ url[Len(url)] = "/"
    THEN trim_end_slashes(SubSeq(url, 1, Len(url) - 1))
    ELSE url

\* Variant of upstream_url_with_query that always writes the "?".
upstream_url_always_query(lmstudio_url, path, query) ==
    trim_end_slashes(lmstudio_url) \o <<path, "?", query>>

\* lines 136-143; an absent query and an empty one are both "".
upstream_url_with_query(lmstudio_url, path, query) ==
    trim_end_slashes(lmstudio_url) \o <<path>>
    \o (IF query = "" THEN <<>> ELSE <<"?", query>>)

\* The header names of the model that start with "sec-" ("x-sec-id" does
\* not).
SecHeaderNames == {"sec-fetch-mode", "sec-ch-ua"}

\* Variant of skipped_header without the starts_with("sec-") test.
skipped_header_named_only(name) ==
    \/ name = "host"
    \/ name = "connection"
    \/ name = "accept-encoding"
    \/ name = "content-length"

\* lines 154-161: the headers that are not copied.
skipped_header(name) ==
    \/ name = "host"
    \/ name \in SecHeaderNames
    \/ name = "connection"
    \/ name = "accept-encoding"
    \/ name = "content-length"

\* lines 149-164
copied_headers(headers) ==
    [n \in { m \in DOMAIN headers : ~skipped_header(m) } |-> headers[n]]

\* lines 136-167: the request handed to reqwest.
build_upstream_req(cfg, head, body) ==
    [some |-> TRUE,
     method |-> head.method,
     url |-> upstream_url_with_query(cfg.lmstudio_url, head.path, head.query),
     headers |-> copied_headers(head.headers),
     body |-> fixed_body_bytes(head.headers, body)]

\* return Err(status): axum answers with that status and nothing else.
ErrResponse(status) ==
    [some |-> TRUE, result |-> "Err", status |-> status,
     headers |-> EmptyHeaders, body |-> <<>>, streaming |-> FALSE]

\* lines 193, 206-211: the response whose body is the mapped stream.
streaming_response(status, headers) ==
    [some |-> TRUE, result |-> "Ok", status |-> status,
     headers |-> sanitize_response_headers(headers), body |-> <<>>,
     streaming |-> TRUE]

\* lines 222-229: the body of the non-streaming response; the test is on the
\* sanitized headers.
fixed_response_bytes(headers, body) ==
    IF is_json_response(sanitize_response_headers(headers))
    THEN LET fixed == fix_response_body(body) IN
         IF fixed.ok THEN fixed.val ELSE body
    ELSE body

\* Variant of buffered_response that keeps the status of Response::new.
buffered_response_default_status(status, headers, body) ==
    [some |-> TRUE, result |-> "Ok", status |-> 200,
     headers |-> sanitize_response_headers(headers),
     body |-> fixed_response_bytes(headers, body), streaming |-> FALSE]

\* lines 193, 222-235
buffered_response(status, headers, body) ==
    [some |-> TRUE, result |-> "Ok", status |-> status,
     headers |-> sanitize_response_headers(headers),
     body |-> fixed_response_bytes(headers, body), streaming |-> FALSE]

\* What send() resolved to.
SendFailed ==
    [some |-> TRUE, ok |-> FALSE, status |-> 0, headers |-> EmptyHeaders,
     body |-> <<>>, read |-> "none"]

UpstreamAnswer(status, headers, read) ==
    [some |-> TRUE, ok |-> TRUE, status |-> status, headers |-> headers,
     body |-> <<>>, read |-> read]

\* Inputs of the handler.
Configs ==
    { [some |-> TRUE, lmstudio_url |-> <<"http://localhost:1234">>],
      [some |-> TRUE, lmstudio_url |-> <<"http://localhost:1234", "/">>],
      [some |-> TRUE, lmstudio_url |-> <<"http://localhost:1234", "/", "/">>] }

ContentTypes ==
    { <<"application/json">>,
      <<"application/json", "; charset=utf-8">>,
      <<"text/plain">>,
      <<"application/json", InvalidByte>>,
      <<"text/event-stream">> }

JsonHeaders == [n \in {"content-type"} |-> <<<<"application/json">>>>]

\* Every header the copy loop tests, and some it does not.
BrowserHeaders ==
    [n \in {"host", "connection", "accept-encoding", "content-length",
            "content-encoding", "transfer-encoding", "sec-fetch-mode",
            "sec-ch-ua", "x-sec-id", "authorization", "content-type"} |->
        CASE n = "host" -> <<<<"localhost:3000">>>>
          [] n = "connection" -> <<<<"keep-alive">>>>
          [] n = "accept-encoding" -> <<<<"gzip">>, <<"br">>>>
          [] n = "content-length" -> <<<<"42">>>>
          [] n = "content-encoding" -> <<<<"gzip">>>>
          [] n = "transfer-encoding" -> <<<<"chunked">>>>
          [] n = "sec-fetch-mode" -> <<<<"cors">>>>
          [] n = "sec-ch-ua" -> <<<<"x">>>>
          [] n = "x-sec-id" -> <<<<"x">>>>
          [] n = "authorization" -> <<<<"x">>>>
          [] OTHER -> <<<<"application/json">>>>]

InboundHeaderMaps ==
    { [n \in {"content-type"} |-> <<ct>>] : ct \in ContentTypes }
    \cup { [n \in {"content-type", "authorization"} |->
              IF n = "content-type" THEN <<<<"text/plain">>, <<"application/json">>>>
              ELSE <<<<"x">>>>],
           [n \in {"authorization"} |-> <<<<"x">>>>],
           BrowserHeaders }

InboundParts ==
    { [some |-> TRUE, method |-> "POST", path |-> "/v1/responses", query |-> "",
       headers |-> h] : h \in InboundHeaderMaps }
    \cup { [some |-> TRUE, method |-> m, path |-> "/v1/models", query |-> q,
            headers |-> JsonHeaders] : m \in {"GET", "POST"}, q \in {"", "a=1"} }

InboundBodies ==
    { <<>>,
      ObjText(<<Member("tools", ArrText(<<FlatTool(ParamEmpty)>>))>>),
      Spaced(ObjText(<<Member("model", StrText("m"))>>)),
      <<"{", Quote("tools"), ":", "[">>,
      <<"hello">>,
      ObjText(<<Member("tools", ArrText(<<FlatTool(ParamEmpty)>>))>>) \o <<InvalidByte>> }

Statuses == { 200, 404, 502 }

UpstreamHeaderMaps ==
    { [n \in {"content-type"} |-> <<<<"application/json">>>>],
      [n \in {"content-type", "content-encoding", "content-length",
              "transfer-encoding", "x-request-id"} |->
          IF n = "content-type"
          THEN <<<<"application/json", "; charset=utf-8">>>>
          ELSE <<<<"x">>>>],
      [n \in {"content-type"} |-> <<<<"text/plain">>>>],
      [n \in {"x-request-id"} |-> <<<<"x">>>>],
      [n \in {"content-type"} |-> <<<<"text/event-stream">>>>],
      [n \in {"content-type", "transfer-encoding"} |->
          IF n = "content-type"
          THEN <<<<"text/event-stream", "; charset=utf-8">>>>
          ELSE <<<<"chunked">>>>],
      [n \in {"content-type"} |-> <<<<"text/event-stream", "; x=", InvalidByte>>>>],
      [n \in {"content-type"} |->
          <<<<"application/json">>, <<"text/event-stream">>>>] }

UpstreamBodies ==
    { <<>>,
      ObjText(<<Member("usage", ObjText(<<>>))>>),
      Spaced(ObjText(<<Member("usage",
          ObjText(<<Member("output_tokens_details", ReasoningThree),
                    Member("input_tokens_details", CachedThree)>>))>>)),
      <<"{", Quote("usage"), ":">> }

StreamChunks ==
    { <<DataPrefix>> \o ResponseUsage(ObjText(<<>>)) \o <<"\n", "\n">>,
      <<DataPrefix>> \o DoneMarker \o <<"\n", "\n">>,
      <<DataPrefix, "{", Quote("response"), ":", InvalidByte>> }

\* lines 48-51: the client main builds.
Client == [some |-> TRUE, http1_only |-> TRUE]

Init ==
    /\ config \in Configs
    /\ pc = "ReceivingBody"
    /\ parts \in InboundParts
    /\ body_bytes = None
    /\ upstream_req = None
    /\ upstream_response = None
    /\ response = None
    /\ upstream_chunks = <<>>
    /\ client_chunks = <<>>
    /\ sent = <<>>
    /\ http_client = Client
    /\ main = "serve"
    /\ tasks = <<>>
    /\ fn = "proxy_handler"
    /\ arg = <<>>
    /\ ret = <<>>

\* lines 113-119: body.collect() fails.
ReadBodyErr ==
    /\ pc = "ReceivingBody"
    /\ body_bytes' = [some |-> TRUE, ok |-> FALSE, val |-> <<>>]
    /\ response' = ErrResponse(400)
    /\ pc' = "Done"
    /\ UNCHANGED <<serverVars, sent, config, parts, upstream_req, upstream_response,
                   upstream_chunks, client_chunks, callVars>>

\* lines 113-170: the body is read, fixed, and the upstream request is sent.
ReadBodyOk ==
    /\ pc = "ReceivingBody"
    /\ \E b \in InboundBodies :
          /\ body_bytes' = [some |-> TRUE, ok |-> TRUE, val |-> b]
          /\ upstream_req' = build_upstream_req(config, parts, b)
          /\ sent' = Append(sent, build_upstream_req(config, parts, b))
    /\ pc' = "AwaitingUpstream"
    /\ UNCHANGED <<serverVars, config, parts, upstream_response, response,
                   upstream_chunks, client_chunks, callVars>>

\* Variant of SendErr that answers 500.
SendErr_internal_error ==
    /\ pc = "AwaitingUpstream"
    /\ upstream_response' = SendFailed
    /\ response' = ErrResponse(500)
    /\ pc' = "Done"
    /\ UNCHANGED <<serverVars, sent, config, parts, body_bytes, upstream_req,
                   upstream_chunks, client_chunks, callVars>>

\* Variant of SendErr that sends the request again after a failure.
SendErr_retry ==
    /\ pc = "AwaitingUpstream"
    /\ Len(sent) <= MaxChunks
    /\ sent' = Append(sent, upstream_req)
    /\ UNCHANGED <<serverVars, config, pc, parts, body_bytes, upstream_req,
                   upstream_response, response, upstream_chunks, client_chunks,
                   callVars>>

\* lines 170-176: send() fails.
SendErr ==
    /\ pc = "AwaitingUpstream"
    /\ upstream_response' = SendFailed
    /\ response' = ErrResponse(502)
    /\ pc' = "Done"
    /\ UNCHANGED <<serverVars, sent, config, parts, body_bytes, upstream_req,
                   upstream_chunks, client_chunks, callVars>>

\* lines 170-211: the upstream answers a stream; the response is returned
\* with the mapped stream as its body.
SendOkStreaming ==
    /\ pc = "AwaitingUpstream"
    /\ \E status \in Statuses, headers \in UpstreamHeaderMaps :
          /\ is_streaming(headers)
          /\ upstream_response' = UpstreamAnswer(status, headers, "stream")
          /\ response' = streaming_response(status, headers)
    /\ pc' = "StreamingBody"
    /\ UNCHANGED <<serverVars, sent, config, parts, body_bytes, upstream_req,
                   upstream_chunks, client_chunks, callVars>>

\* lines 170-214: the upstream answers something else; the handler goes on
\* to read the whole body.
SendOkBuffered ==
    /\ pc = "AwaitingUpstream"
    /\ \E status \in Statuses, headers \in UpstreamHeaderMaps :
          /\ ~is_streaming(headers)
          /\ upstream_response' = UpstreamAnswer(status, headers, "pending")
    /\ pc' = "NonStreamingBody"
    /\ UNCHANGED <<serverVars, sent, config, parts, body_bytes, upstream_req, response,
                   upstream_chunks, client_chunks, callVars>>

\* lines 214-220: bytes() fails.
ReadUpstreamBodyErr ==
    /\ pc = "NonStreamingBody"
    /\ upstream_response' = [upstream_response EXCEPT !.read = "err"]
    /\ response' = ErrResponse(502)
    /\ pc' = "Done"
    /\ UNCHANGED <<serverVars, sent, config, parts, body_bytes, upstream_req,
                   upstream_chunks, client_chunks, callVars>>

\* lines 214-235: the body is read, fixed, and the response returned.
ReadUpstreamBodyOk ==
    /\ pc = "NonStreamingBody"
    /\ \E b \in UpstreamBodies :
          /\ upstream_response' = [upstream_response EXCEPT !.read = "ok", !.body = b]
          /\ response' = buffered_response(upstream_response.status,
                                           upstream_response.headers, b)
    /\ pc' = "Done"
    /\ UNCHANGED <<serverVars, sent, config, parts, body_bytes, upstream_req,
                   upstream_chunks, client_chunks, callVars>>

\* Variant of StreamChunk that emits the newest item first.
StreamChunk_newest_first ==
    /\ pc = "StreamingBody"
    /\ Len(upstream_chunks) < MaxChunks
    /\ \E chunk \in StreamChunks :
          /\ upstream_chunks' = Append(upstream_chunks, Ok(chunk))
          /\ client_chunks' = <<Ok(filter_chunk(chunk))>> \o client_chunks
    /\ UNCHANGED <<serverVars, sent, config, pc, parts, body_bytes, upstream_req,
                   upstream_response, response, callVars>>

\* lines 198-202: the upstream stream yields Ok(chunk).
StreamChunk ==
    /\ pc = "StreamingBody"
    /\ Len(upstream_chunks) < MaxChunks
    /\ \E chunk \in StreamChunks :
          /\ upstream_chunks' = Append(upstream_chunks, Ok(chunk))
          /\ client_chunks' = Append(client_chunks, Ok(filter_chunk(chunk)))
    /\ UNCHANGED <<serverVars, sent, config, pc, parts, body_bytes, upstream_req,
                   upstream_response, response, callVars>>

\* line 203: the upstream stream yields Err(e); the mapped stream yields an
\* error and the body ends there.
StreamError ==
    /\ pc = "StreamingBody"
    /\ upstream_chunks' = Append(upstream_chunks, Err)
    /\ client_chunks' = Append(client_chunks, Err)
    /\ pc' = "Done"
    /\ UNCHANGED <<serverVars, sent, config, parts, body_bytes, upstream_req,
                   upstream_response, response, callVars>>

\* The upstream stream ends.
StreamEnd ==
    /\ pc = "StreamingBody"
    /\ pc' = "Done"
    /\ UNCHANGED <<serverVars, sent, config, parts, body_bytes, upstream_req, upstream_response,
                   response, upstream_chunks, client_chunks, callVars>>

Next ==
    \/ ReadBodyErr
    \/ ReadBodyOk
    \/ SendErr
    \/ SendOkStreaming
    \/ SendOkBuffered
    \/ ReadUpstreamBodyErr
    \/ ReadUpstreamBodyOk
    \/ StreamChunk
    \/ StreamError
    \/ StreamEnd

Spec == Init /\ [][Next]_vars

(***************************************************************************)
(* main and concurrent handlers (SpecServe).  main sets CONFIG and         *)
(* HTTP_CLIENT, then axum::serve runs one proxy_handler task per request;  *)
(* the tasks interleave at their await points (lines 113, 170, 214 and     *)
(* every poll of the response stream).  tasks[t] holds the locals of the   *)
(* t-th handler, under the names they have in proxy_handler.               *)
(***************************************************************************)
MaxTasks == 2

\* The requests, bodies and upstream answers the concurrent handlers get.
ServeParts ==
    { p \in InboundParts :
        /\ p.headers = JsonHeaders
        /\ p.path = "/v1/responses" \/ (p.method = "GET" /\ p.query = "a=1") }

ServeBodies == { ObjText(<<Member("tools", ArrText(<<FlatTool(ParamEmpty)>>))>>) }

ServeUpstreamHeaderMaps ==
    { [n \in {"content-type"} |-> <<<<"application/json">>>>],
      [n \in {"content-type"} |-> <<<<"text/event-stream">>>>] }

ServeUpstreamBodies == { ObjText(<<Member("usage", ObjText(<<>>))>>) }

ServeChunks == { <<DataPrefix>> \o ResponseUsage(ObjText(<<>>)) \o <<"\n", "\n">> }

\* lines 95-99: the locals of a handler that has just been called.
NewTask(head) ==
    [config |-> None, pc |-> "ReceivingBody", parts |-> head,
     body_bytes |-> None, upstream_req |-> None, upstream_response |-> None,
     response |-> None, upstream_chunks |-> <<>>, client_chunks |-> <<>>,
     sent |-> <<>>]

\* Variant of task_request that takes the head of the request accepted last,
\* as a handler would if the head were kept in a static.
task_request_last_parts(t, b) ==
    build_upstream_req(config, tasks[Len(tasks)].parts, b)

\* lines 121-167: the request handler t builds from CONFIG, its own head and
\* its own body.
task_request(t, b) == build_upstream_req(config, tasks[t].parts, b)

\* lines 113-235: the locals of handler t after its next step, for every
\* outcome of the await it is at.
task_steps(t) ==
    LET s == tasks[t] IN
    CASE s.pc = "ReceivingBody" ->
           { [s EXCEPT !.body_bytes = [some |-> TRUE, ok |-> FALSE, val |-> <<>>],
                       !.response = ErrResponse(400),
                       !.pc = "Done"] }
           \cup
           { [s EXCEPT !.body_bytes = [some |-> TRUE, ok |-> TRUE, val |-> b],
                       !.config = config,
                       !.upstream_req = task_request(t, b),
                       !.sent = Append(s.sent, task_request(t, b)),
                       !.pc = "AwaitingUpstream"] : b \in ServeBodies }
      [] s.pc = "AwaitingUpstream" ->
           { [s EXCEPT !.upstream_response = SendFailed,
                       !.response = ErrResponse(502),
                       !.pc = "Done"] }
           \cup
           { IF is_streaming(h)
             THEN [s EXCEPT !.upstream_response = UpstreamAnswer(200, h, "stream"),
                            !.response = streaming_response(200, h),
                            !.pc = "StreamingBody"]
             ELSE [s EXCEPT !.upstream_response = UpstreamAnswer(200, h, "pending"),
                            !.pc = "NonStreamingBody"]
             : h \in ServeUpstreamHeaderMaps }
      [] s.pc = "NonStreamingBody" ->
           { [s EXCEPT !.upstream_response.read = "err",
                       !.response = ErrResponse(502),
                       !.pc = "Done"] }
           \cup
           { [s EXCEPT !.upstream_response.read = "ok",
                       !.upstream_response.body = b,
                       !.response = buffered_response(s.upstream_response.status,
                                                      s.upstream_response.headers, b),
                       !.pc = "Done"] : b \in ServeUpstreamBodies }
      [] s.pc = "StreamingBody" ->
           { [s EXCEPT !.upstream_chunks = Append(@, Err),
                       !.client_chunks = Append(@, Err),
                       !.pc = "Done"],
             [s EXCEPT !.pc = "Done"] }
           \cup
           (IF Len(s.upstream_chunks) < MaxChunks
            THEN { [s EXCEPT !.upstream_chunks = Append(@, Ok(chunk)),
                             !.client_chunks = Append(@, Ok(filter_chunk(chunk)))]
                   : chunk \in ServeChunks }
            ELSE {})
      [] OTHER -> {}

InitServe ==
    /\ config = None
    /\ http_client = None
    /\ main = "start"
    /\ tasks = <<>>
    /\ pc = "idle"
    /\ parts = None
    /\ body_bytes = None
    /\ upstream_req = None
    /\ upstream_response = None
    /\ response = None
    /\ upstream_chunks = <<>>
    /\ client_chunks = <<>>
    /\ sent = <<>>
    /\ fn = "main"
    /\ arg = <<>>
    /\ ret = <<>>

serveIdleVars == <<pc, parts, body_bytes, upstream_req, upstream_response, response,
                   upstream_chunks, client_chunks, sent, fn, arg, ret>>

\* lines 44-45: CONFIG.set(config); a second set would panic on expect.
MainSetConfig ==
    /\ main = "start"
    /\ config = None
    /\ config' \in Configs
    /\ main' = "client"
    /\ UNCHANGED <<http_client, tasks, serveIdleVars>>

\* lines 48-52: HTTP_CLIENT.set(client)
MainSetClient ==
    /\ main = "client"
    /\ http_client = None
    /\ http_client' = Client
    /\ main' = "listen"
    /\ UNCHANGED <<config, tasks, serveIdleVars>>

\* lines 76-91: the router is built, the listener bound, axum::serve awaited.
MainServe ==
    /\ main = "listen"
    /\ main' = "serve"
    /\ UNCHANGED <<config, http_client, tasks, serveIdleVars>>

\* line 91: axum::serve calls proxy_handler in a new task for a request.
Accept ==
    /\ main = "serve"
    /\ Len(tasks) < MaxTasks
    /\ \E head \in ServeParts : tasks' = Append(tasks, NewTask(head))
    /\ UNCHANGED <<config, http_client, main, serveIdleVars>>

\* One handler runs from the await it is at to its next await or its return.
TaskStep ==
    /\ main = "serve"
    /\ \E t \in 1..Len(tasks) :
          \E s \in task_steps(t) : tasks' = [tasks EXCEPT ![t] = s]
    /\ UNCHANGED <<config, http_client, main, serveIdleVars>>

NextServe ==
    \/ MainSetConfig
    \/ MainSetClient
    \/ MainServe
    \/ Accept
    \/ TaskStep

SpecServe == InitServe /\ [][NextServe]_vars

(***************************************************************************)
(* The response stream over a divided SSE byte stream (SpecStream).  The   *)
(* handler is in its streaming branch; arg is the sequence of chunks the   *)
(* transport cuts the upstream's byte stream into, and the mapped stream   *)
(* of lines 198-204 is polled until the upstream stream ends.              *)
(***************************************************************************)
MaxPieces == 2

\* SSE byte streams of the upstream: two events; one event whose data starts
\* with "data: "; one event that needs no fix; one event of two data lines.
SseStreams ==
    { <<DataPrefix>> \o ResponseUsage(ObjText(<<>>)) \o <<"\n", "\n">>
        \o <<DataPrefix>> \o DoneMarker \o <<"\n", "\n">>,
      <<DataPrefix, DataPrefix>> \o ResponseUsage(ObjText(<<>>)) \o <<"\n", "\n">>,
      <<DataPrefix>> \o ObjText(<<Member("type", StrText("x"))>>) \o <<"\n", "\n">>,
      <<DataPrefix>> \o ResponseUsage(ObjText(<<>>)) \o <<"\n">>
        \o <<DataPrefix>> \o StrText("x") \o <<"\n", "\n">> }

\* Every way to cut a byte string into at most k chunks, none empty.
RECURSIVE Splits(_, _)
Splits(bytes, k) ==
    IF k <= 1 \/ Len(bytes) <= 1 THEN { <<bytes>> }
    ELSE { <<bytes>> } \cup
         UNION { { <<SubSeq(bytes, 1, i)>> \o rest :
                     rest \in Splits(SubSeq(bytes, i + 1, Len(bytes)), k - 1) } :
                 i \in 1..(Len(bytes) - 1) }

Divisions == UNION { Splits(bytes, MaxPieces) : bytes \in SseStreams }

StreamHead ==
    [some |-> TRUE, method |-> "POST", path |-> "/v1/responses", query |-> "",
     headers |-> JsonHeaders]

StreamAnswerHeaders == [n \in {"content-type"} |-> <<<<"text/event-stream">>>>]

InitStream ==
    /\ config \in { c \in Configs : Len(c.lmstudio_url) = 1 }
    /\ http_client = Client
    /\ main = "serve"
    /\ tasks = <<>>
    /\ pc = "StreamingBody"
    /\ parts = StreamHead
    /\ body_bytes = [some |-> TRUE, ok |-> TRUE, val |-> <<>>]
    /\ upstream_req = build_upstream_req(config, StreamHead, <<>>)
    /\ sent = <<build_upstream_req(config, StreamHead, <<>>)>>
    /\ upstream_response = UpstreamAnswer(200, StreamAnswerHeaders, "stream")
    /\ response = streaming_response(200, StreamAnswerHeaders)
    /\ upstream_chunks = <<>>
    /\ client_chunks = <<>>
    /\ fn = "bytes_stream"
    /\ arg \in Divisions
    /\ ret = <<>>

\* lines 198-202: the upstream stream yields its next chunk.
DeliverChunk ==
    /\ pc = "StreamingBody"
    /\ Len(upstream_chunks) < Len(arg)
    /\ LET chunk == arg[Len(upstream_chunks) + 1] IN
       /\ upstream_chunks' = Append(upstream_chunks, Ok(chunk))
       /\ client_chunks' = Append(client_chunks, Ok(filter_chunk(chunk)))
    /\ UNCHANGED <<serverVars, sent, config, pc, parts, body_bytes, upstream_req,
                   upstream_response, response, callVars>>

\* The upstream stream ends after its last chunk.
DeliverEnd ==
    /\ pc = "StreamingBody"
    /\ Len(upstream_chunks) = Len(arg)
    /\ pc' = "Done"
    /\ UNCHANGED <<serverVars, sent, config, parts, body_bytes, upstream_req,
                   upstream_response, response, upstream_chunks, client_chunks,
                   callVars>>

NextStream ==
    \/ DeliverChunk
    \/ DeliverEnd

SpecStream == InitStream /\ [][NextStream]_vars

(***************************************************************************)
(* Properties of fix_request_body and fix_response_body (SpecPatch).       *)
(***************************************************************************)
\* The document read from the argument and from the first result.
DocIn == from_slice(arg)
DocOut == from_slice(ret[1].val)

Applied(f) == fn = f /\ Len(ret) >= 1

\* The parameters a tool resolves to, as a sequence of zero or one value:
\* function.parameters when the tool has a function key, else parameters.
Resolved(tool) ==
    IF has(tool, "function")
    THEN IF has(tool.v["function"], "parameters")
         THEN <<tool.v["function"].v["parameters"]>>
         ELSE <<>>
    ELSE IF has(tool, "parameters") THEN <<tool.v["parameters"]>> ELSE <<>>

\* An object without a type key.
Untyped(p) == p # <<>> /\ is_object(p[1]) /\ ~contains_key(p[1].v, "type")

HasToolsArray(doc) == has(doc, "tools") /\ is_array(doc.v["tools"])

\* C1: for every request document with a top-level array tools, every tool
\* whose resolved parameters is an object without type has, after
\* fix_request_body, type = "object" and a properties key: {} if properties
\* was absent, the original value if it was present.
C1_ToolSchemaCompleted ==
    LET din == DocIn
        dout == DocOut
    IN
        (Applied("fix_request_body") /\ din.ok /\ HasToolsArray(din.val)) =>
            /\ ret[1].ok
            /\ dout.ok
            /\ HasToolsArray(dout.val)
            /\ LET tin == din.val.v["tools"].v
                   tout == dout.val.v["tools"].v
               IN /\ Len(tout) = Len(tin)
                  /\ \A i \in 1..Len(tin) :
                        LET pin == Resolved(tin[i])
                            pout == Resolved(tout[i])
                        IN Untyped(pin) =>
                              /\ pout # <<>>
                              /\ is_object(pout[1])
                              /\ contains_key(pout[1].v, "type")
                              /\ pout[1].v["type"] = [t |-> "str", v |-> "object"]
                              /\ contains_key(pout[1].v, "properties")
                              /\ pout[1].v["properties"] =
                                    IF contains_key(pin[1].v, "properties")
                                    THEN pin[1].v["properties"]
                                    ELSE [t |-> "obj", v |-> <<>>]

\* C1 witness: a document in which a nested and a flat tool were completed,
\* one of them with its own properties kept.
C1_Witness ==
    LET din == DocIn
        dout == DocOut
    IN
        /\ Applied("fix_request_body") /\ din.ok /\ HasToolsArray(din.val)
        /\ ret[1].ok
        /\ LET tin == din.val.v["tools"].v
               tout == dout.val.v["tools"].v
           IN /\ Len(tin) = 2
              /\ has(tin[1], "function") /\ Untyped(Resolved(tin[1]))
              /\ ~contains_key(Resolved(tin[1])[1].v, "properties")
              /\ ~has(tin[2], "function") /\ Untyped(Resolved(tin[2]))
              /\ contains_key(Resolved(tin[2])[1].v, "properties")
              /\ Resolved(tout[1])[1].v["type"] = [t |-> "str", v |-> "object"]
              /\ Resolved(tout[2])[1].v["properties"] = Resolved(tin[2])[1].v["properties"]

\* a holds everything b holds: the same kind of value; an object with every
\* key of b, each value in turn holding everything b's holds; an array of the
\* same length, element by element; an equal scalar.
RECURSIVE Extends(_, _)
Extends(a, b) ==
    /\ a.t = b.t
    /\ CASE b.t = "obj" ->
              \A k \in DOMAIN b.v : k \in DOMAIN a.v /\ Extends(a.v[k], b.v[k])
         [] b.t = "arr" ->
              /\ Len(a.v) = Len(b.v)
              /\ \A i \in 1..Len(b.v) : Extends(a.v[i], b.v[i])
         [] OTHER -> a.v = b.v

\* The paths (keys, and array indices as strings) of the keys a holds and b
\* does not, for a that extends b.
RECURSIVE AddedKeys(_, _, _)
AddedKeys(a, b, path) ==
    CASE b.t = "obj" ->
           { Append(path, k) : k \in (DOMAIN a.v) \ (DOMAIN b.v) }
           \cup UNION { AddedKeys(a.v[k], b.v[k], Append(path, k)) : k \in DOMAIN b.v }
      [] b.t = "arr" ->
           UNION { AddedKeys(a.v[i], b.v[i], Append(path, ToString(i))) :
                     i \in 1..Len(b.v) }
      [] OTHER -> {}

\* An added key is allowed only as type or properties of the resolved
\* parameters of a tool of the top-level tools array, where those parameters
\* were an object without type.
AllowedAddition(doc, path) ==
    /\ HasToolsArray(doc)
    /\ Len(path) \in {4, 5}
    /\ path[1] = "tools"
    /\ path[Len(path)] \in {"type", "properties"}
    /\ \E i \in 1..Len(doc.v["tools"].v) :
          LET tool == doc.v["tools"].v[i] IN
          /\ path[2] = ToString(i)
          /\ Untyped(Resolved(tool))
          /\ IF has(tool, "function")
             THEN Len(path) = 5 /\ path[3] = "function" /\ path[4] = "parameters"
             ELSE Len(path) = 4 /\ path[3] = "parameters"

\* C2: fix_request_body only adds: the output document holds every key and
\* value of the input document, and the only keys added are type and
\* properties inside resolved object parameters that had no type (so typed
\* parameters, non-object parameters, a flat parameters beside a function key
\* and everything outside tools are the same before and after).
C2_RequestPatchAdditive ==
    LET din == DocIn
        dout == DocOut
    IN
        (Applied("fix_request_body") /\ din.ok) =>
            /\ ret[1].ok
            /\ dout.ok
            /\ Extends(dout.val, din.val)
            /\ \A path \in AddedKeys(dout.val, din.val, <<>>) :
                  AllowedAddition(din.val, path)

\* C2 witness: a document with a typed schema without properties, a flat
\* parameters beside a function key or a non-object parameters came back as
\* the same document.
C2_Witness ==
    LET din == DocIn
        dout == DocOut
    IN
        /\ Applied("fix_request_body") /\ din.ok /\ HasToolsArray(din.val)
        /\ ret[1].ok
        /\ dout.val = din.val
        /\ LET tin == din.val.v["tools"].v IN
           /\ Len(tin) = 2
           /\ has(tin[1], "function") /\ has(tin[1], "parameters")
           /\ is_object(tin[1].v["parameters"])
           /\ ~contains_key(tin[1].v["parameters"].v, "type")
           /\ Resolved(tin[2]) # <<>> /\ is_object(Resolved(tin[2])[1])
           /\ DOMAIN Resolved(tin[2])[1].v = {"type"}

\* C3: for every response document whose top-level usage is an object, after
\* fix_response_body usage holds both detail fields, an absent one with its
\* default, a present one with its original value, and every other key of
\* the document is unchanged; without an object usage the document is
\* unchanged.
C3_UsageDetailsCompleted ==
    LET din == DocIn
        dout == DocOut
    IN
        (Applied("fix_response_body") /\ din.ok) =>
            /\ ret[1].ok
            /\ dout.ok
            /\ IF has(din.val, "usage") /\ is_object(din.val.v["usage"])
               THEN LET min == din.val.v
                        mout == dout.val.v
                        uin == min["usage"].v
                    IN /\ is_object(dout.val)
                       /\ DOMAIN mout = DOMAIN min
                       /\ \A k \in (DOMAIN min) \ {"usage"} : mout[k] = min[k]
                       /\ is_object(mout["usage"])
                       /\ LET uout == mout["usage"].v IN
                          /\ DOMAIN uout = (DOMAIN uin) \cup
                                 {"input_tokens_details", "output_tokens_details"}
                          /\ \A k \in DOMAIN uin : uout[k] = uin[k]
                          /\ "input_tokens_details" \notin DOMAIN uin =>
                                 uout["input_tokens_details"] =
                                     [t |-> "obj", v |-> [k \in {"cached_tokens"} |->
                                                            [t |-> "num", v |-> "0"]]]
                          /\ "output_tokens_details" \notin DOMAIN uin =>
                                 uout["output_tokens_details"] =
                                     [t |-> "obj", v |-> [k \in {"reasoning_tokens"} |->
                                                            [t |-> "num", v |-> "0"]]]
               ELSE dout.val = din.val

\* C3 witness: a usage that held one detail field with a value of its own
\* came back with that value and the other field's default.
C3_Witness ==
    LET din == DocIn
        dout == DocOut
    IN
        /\ Applied("fix_response_body") /\ din.ok /\ ret[1].ok
        /\ has(din.val, "usage") /\ is_object(din.val.v["usage"])
        /\ LET uin == din.val.v["usage"].v
               uout == dout.val.v["usage"].v
           IN /\ contains_key(uin, "input_tokens_details")
              /\ ~contains_key(uin, "output_tokens_details")
              /\ uin["input_tokens_details"].t = "null"
              /\ uout["input_tokens_details"].t = "null"
              /\ contains_key(uout, "output_tokens_details")

\* C4: fix_request_body and fix_response_body are idempotent: applied to
\* their own output they succeed and return the same bytes, hence the same
\* document; the second application inserts nothing.
C4_PatchIdempotent ==
    (fn \in {"fix_request_body", "fix_response_body"} /\ Len(ret) >= 2) =>
        /\ ret[2].ok
        /\ ret[2].val = ret[1].val
        /\ from_slice(ret[2].val) = from_slice(ret[1].val)

\* C4 witness: a second application to a body the first one had changed.
C4_Witness ==
    LET din == DocIn
        dout == DocOut
    IN
        /\ fn \in {"fix_request_body", "fix_response_body"}
        /\ Len(ret) >= 2
        /\ din.ok
        /\ dout.val # din.val
        /\ ret[2].ok

(***************************************************************************)
(* Properties of fix_streaming_chunk (SpecChunk).                          *)
(***************************************************************************)
\* What follows the literal prefix "data: " of a chunk that starts with it,
\* without the surrounding whitespace.
Payload(chunk) == trim(SubSeq(chunk, data_prefix_len(chunk) + 1, Len(chunk)))

\* C5: a chunk that is not valid UTF-8, or does not start with "data: ", or
\* whose payload (the prefix and the surrounding whitespace stripped) is
\* [DONE] or is not parseable as JSON, goes through unchanged, byte for byte.
C5_PassThroughUnchanged ==
    Applied("fix_streaming_chunk") =>
        ((\/ ~from_utf8_ok(arg)
          \/ ~starts_with_data(arg)
          \/ Payload(arg) = DoneMarker
          \/ ~from_slice(Payload(arg)).ok)
            => ret[1].val = arg)

\* The payload document has an object at response.usage.
HasResponseUsage(doc) ==
    /\ has(doc, "response")
    /\ has(doc.v["response"], "usage")
    /\ is_object(doc.v["response"].v["usage"])

DetailFields == {"input_tokens_details", "output_tokens_details"}

\* C6: for a chunk "data: <json>" plus whitespace whose JSON has an object at
\* response.usage that misses a detail field, the result is "data: " J "\n\n",
\* J the serialisation of the input JSON with the missing detail fields
\* inserted at response.usage with their defaults, the present ones kept,
\* nothing else added or removed; a flat top-level usage is not touched.
C6_StreamingUsageCompleted ==
    LET din == from_slice(Payload(arg)) IN
    (/\ Applied("fix_streaming_chunk")
     /\ from_utf8_ok(arg)
     /\ starts_with_data(arg)
     /\ din.ok
     /\ HasResponseUsage(din.val)
     /\ ~(DetailFields \subseteq DOMAIN din.val.v["response"].v["usage"].v)) =>
        LET item == ret[1].val
            J == SubSeq(item, 2, Len(item) - 2)
            dout == from_slice(J)
        IN /\ ret[1].ok
           /\ Len(item) >= 3
           /\ item = <<"data: ">> \o J \o <<"\n", "\n">>
           /\ dout.ok
           /\ to_vec(dout.val) = J
           /\ is_object(dout.val)
           /\ DOMAIN dout.val.v = DOMAIN din.val.v
           /\ \A k \in (DOMAIN din.val.v) \ {"response"} : dout.val.v[k] = din.val.v[k]
           /\ LET rin == din.val.v["response"].v
                  rout == dout.val.v["response"]
              IN /\ is_object(rout)
                 /\ DOMAIN rout.v = DOMAIN rin
                 /\ \A k \in (DOMAIN rin) \ {"usage"} : rout.v[k] = rin[k]
                 /\ is_object(rout.v["usage"])
                 /\ LET uin == rin["usage"].v
                        uout == rout.v["usage"].v
                    IN /\ DOMAIN uout = (DOMAIN uin) \cup DetailFields
                       /\ \A k \in DOMAIN uin : uout[k] = uin[k]
                       /\ "input_tokens_details" \notin DOMAIN uin =>
                              uout["input_tokens_details"] =
                                  [t |-> "obj", v |-> [k \in {"cached_tokens"} |->
                                                         [t |-> "num", v |-> "0"]]]
                       /\ "output_tokens_details" \notin DOMAIN uin =>
                              uout["output_tokens_details"] =
                                  [t |-> "obj", v |-> [k \in {"reasoning_tokens"} |->
                                                         [t |-> "num", v |-> "0"]]]

\* C6 witness: a chunk with a flat usage beside a response.usage that held one
\* detail field came back re-framed, the flat usage as it was.
C6_Witness ==
    LET din == from_slice(Payload(arg)) IN
    /\ Applied("fix_streaming_chunk")
    /\ from_utf8_ok(arg) /\ starts_with_data(arg) /\ din.ok
    /\ HasResponseUsage(din.val)
    /\ has(din.val, "usage")
    /\ DOMAIN din.val.v["response"].v["usage"].v = {"input_tokens_details"}
    /\ ret[1].ok
    /\ ret[1].val # arg
    /\ LET item == ret[1].val
           dout == from_slice(SubSeq(item, 2, Len(item) - 2))
       IN /\ dout.val.v["usage"] = din.val.v["usage"]
          /\ DOMAIN dout.val.v["response"].v["usage"].v = DetailFields

\* Nothing is missing in the payload document: no response key, no object
\* at response.usage, or both detail fields in it.
NothingToInsert(doc) ==
    \/ ~has(doc, "response")
    \/ ~HasResponseUsage(doc)
    \/ DetailFields \subseteq DOMAIN doc.v["response"].v["usage"].v

\* C18: a chunk starting with "data: " whose payload is JSON in which no
\* field is to be inserted comes back as it came, byte for byte: no
\* re-serialisation, same whitespace, key order and line terminator.
C18_UnfixedChunkUnchanged ==
    (Applied("fix_streaming_chunk") /\ from_utf8_ok(arg) /\ starts_with_data(arg)) =>
        LET din == from_slice(Payload(arg)) IN
        (din.ok /\ NothingToInsert(din.val)) =>
            (fix_streaming_chunk(arg).ok /\ ret[1].val = arg)

\* C18 witness: a chunk whose response.usage holds both detail fields, and
\* whose text is not what re-serialising and re-framing would write, came
\* back unchanged.
C18_Witness ==
    /\ Applied("fix_streaming_chunk")
    /\ from_utf8_ok(arg)
    /\ starts_with_data(arg)
    /\ LET din == from_slice(Payload(arg)) IN
       /\ din.ok
       /\ HasResponseUsage(din.val)
       /\ DetailFields \subseteq DOMAIN din.val.v["response"].v["usage"].v
       /\ <<DataPrefix>> \o to_vec(din.val) \o <<"\n", "\n">> # arg
    /\ ret[1].val = arg

(***************************************************************************)
(* Properties of sanitize_response_headers (SpecHeaders).                  *)
(***************************************************************************)
SanitizedNames == {"content-encoding", "content-length", "transfer-encoding"}

\* C7: sanitize_response_headers removes exactly content-encoding,
\* content-length and transfer-encoding, with all their values, and leaves
\* every other header name and value as it was; on a map without the three it
\* is the identity.
C7_SanitizeRemovesExactlyThree ==
    Applied("sanitize_response_headers") =>
        LET out == ret[1].val IN
        /\ DOMAIN out = (DOMAIN arg) \ SanitizedNames
        /\ \A n \in DOMAIN out : out[n] = arg[n]
        /\ ((DOMAIN arg) \cap SanitizedNames = {} => out = arg)

\* C7 witness: a map with the three headers, one of them with two values,
\* and others, one with two values, after the call.
C7_Witness ==
    /\ Applied("sanitize_response_headers")
    /\ SanitizedNames \subseteq DOMAIN arg
    /\ Len(arg["content-encoding"]) = 2
    /\ "set-cookie" \in DOMAIN arg
    /\ Len(arg["set-cookie"]) = 2
    /\ DOMAIN ret[1].val = {"content-type", "set-cookie"}
    /\ ret[1].val["set-cookie"] = arg["set-cookie"]

(***************************************************************************)
(* Properties of proxy_handler (Spec).                                     *)
(***************************************************************************)
\* Some value of the inbound content-type header contains application/json.
ClaimsJson(headers) ==
    /\ "content-type" \in DOMAIN headers
    /\ \E i \in 1..Len(headers["content-type"]) :
          contains(headers["content-type"][i], "application/json")

InboundReadFailed == body_bytes.some /\ ~body_bytes.ok
SendHasFailed == upstream_response.some /\ ~upstream_response.ok
UpstreamReadFailed ==
    upstream_response.some /\ upstream_response.ok /\ upstream_response.read = "err"

\* The upstream's response reached the handler: its head on the streaming
\* path, head and body on the non-streaming path.
UpstreamDelivered ==
    /\ upstream_response.some
    /\ upstream_response.ok
    /\ upstream_response.read \in {"ok", "stream"}

Returned(result, status) ==
    response.some /\ response.result = result /\ response.status = status

\* The inbound body was read, is not empty and is not JSON, under a
\* content-type that claims JSON.
InvalidJsonRequest ==
    /\ body_bytes.some
    /\ body_bytes.ok
    /\ body_bytes.val # <<>>
    /\ ClaimsJson(parts.headers)
    /\ ~from_slice(body_bytes.val).ok

\* C8: a request with a JSON content-type whose non-empty body is not valid
\* JSON is sent upstream with the inbound body byte for byte, the upstream
\* call is made, and the client gets the status the upstream returned: the
\* handler returns an error only for a transport failure.
C8_InvalidJsonForwarded ==
    InvalidJsonRequest =>
        /\ upstream_req.some
        /\ upstream_req.body = body_bytes.val
        /\ UpstreamDelivered => Returned("Ok", upstream_response.status)
        /\ (response.some /\ response.result = "Err") =>
               (SendHasFailed \/ UpstreamReadFailed)
        /\ pc = "Done" => response.some

\* C8 witness: such a request completed with the upstream's 404.
C8_Witness ==
    /\ InvalidJsonRequest
    /\ is_json_request(parts.headers)
    /\ pc = "Done"
    /\ upstream_req.body = body_bytes.val
    /\ upstream_response.some /\ upstream_response.ok
    /\ upstream_response.status = 404
    /\ Returned("Ok", 404)

\* C9: a failed read of the inbound body ends the request with 400, a failed
\* send with 502, a failed read of the upstream body on the non-streaming
\* path with 502; in no other execution does the handler return an error
\* status of its own.
C9_TransportFailureStatuses ==
    /\ InboundReadFailed => (pc = "Done" /\ Returned("Err", 400))
    /\ SendHasFailed => (pc = "Done" /\ Returned("Err", 502))
    /\ UpstreamReadFailed => (pc = "Done" /\ Returned("Err", 502))
    /\ (response.some /\ response.result = "Err") =>
           (InboundReadFailed \/ SendHasFailed \/ UpstreamReadFailed)
    /\ pc = "Done" => response.some

\* C9 witness: the upstream answered 200 and its body could not be read.
C9_Witness ==
    /\ pc = "Done"
    /\ UpstreamReadFailed
    /\ upstream_response.status = 200
    /\ Returned("Err", 502)

\* C10: whenever the upstream's response reached the handler, streaming or
\* not, success or not, the response returned to the client carries the
\* upstream's status, whatever was done to body and headers.
C10_StatusPreserved ==
    UpstreamDelivered => Returned("Ok", upstream_response.status)

\* C10 witness: a 404 whose body was patched and whose headers were
\* sanitized went out as a 404.
C10_Witness ==
    /\ pc = "Done"
    /\ UpstreamDelivered
    /\ upstream_response.status = 404
    /\ ~response.streaming
    /\ response.body # upstream_response.body
    /\ response.headers # upstream_response.headers
    /\ Returned("Ok", 404)

(***************************************************************************)
(* Properties of the upstream request (Spec).                              *)
(***************************************************************************)
\* The inbound headers without the names of a set.
HeadersExcept(headers, excluded) ==
    [n \in DOMAIN headers \ excluded |-> headers[n]]

\* The excluded set as the claim C11 lists it.
ClaimedExcluded ==
    {"host", "connection", "accept-encoding",
     "content-length", "content-encoding", "transfer-encoding"}

\* C11 as stated: the upstream request carries every inbound header, all its
\* values verbatim, except exactly host, connection, accept-encoding,
\* content-length, content-encoding and transfer-encoding.
C11_ForwardedExceptClaimedSet ==
    upstream_req.some =>
        upstream_req.headers = HeadersExcept(parts.headers, ClaimedExcluded)

\* The names the copy loop leaves out: four by name, and every name that
\* starts with "sec-".
ForwardingExcluded ==
    {"host", "connection", "accept-encoding", "content-length"}
    \cup {"sec-fetch-mode", "sec-ch-ua"}

\* C11 (amended): the upstream request carries every inbound header, all its
\* values verbatim, except exactly host, connection, accept-encoding,
\* content-length and the names starting with sec-; content-encoding and
\* transfer-encoding are forwarded like any other header.
C11_ForwardedExceptSkipped ==
    upstream_req.some =>
        upstream_req.headers = HeadersExcept(parts.headers, ForwardingExcluded)

\* C11 witness: a request with every tested header was sent; the upstream
\* request has content-encoding, transfer-encoding and x-sec-id, and neither
\* sec- header.
C11_Witness ==
    /\ upstream_req.some
    /\ parts.headers = BrowserHeaders
    /\ {"content-encoding", "transfer-encoding", "x-sec-id", "authorization"}
           \subseteq DOMAIN upstream_req.headers
    /\ DOMAIN upstream_req.headers \cap
           {"sec-fetch-mode", "sec-ch-ua", "host", "content-length"} = {}
    /\ upstream_req.headers["content-encoding"] = <<<<"gzip">>>>

\* C12 as stated: the upstream call has the inbound method and the URL
\* <configured base URL><path>, followed by ?<query> exactly when the query
\* is not empty.
C12_UrlIsBasePathQuery ==
    upstream_req.some =>
        /\ sent = <<upstream_req>>
        /\ upstream_req.method = parts.method
        /\ upstream_req.url =
              config.lmstudio_url \o <<parts.path>>
              \o (IF parts.query = "" THEN <<>> ELSE <<"?", parts.query>>)

\* base is url without its trailing "/" characters.
IsWithoutTrailingSlashes(base, url) ==
    /\ Len(base) <= Len(url)
    /\ base = SubSeq(url, 1, Len(base))
    /\ \A i \in (Len(base) + 1)..Len(url) : url[i] = "/"
    /\ base = <<>> \/ base[Len(base)] # "/"

\* C12 (amended): the upstream call has the inbound method and the URL
\* <configured base URL without its trailing slashes><path>, followed by
\* ?<query> exactly when the query is not empty; path and query unchanged.
C12_UrlIsTrimmedBasePathQuery ==
    upstream_req.some =>
        /\ sent = <<upstream_req>>
        /\ upstream_req.method = parts.method
        /\ \E n \in 0..Len(config.lmstudio_url) :
              LET base == SubSeq(config.lmstudio_url, 1, n) IN
              /\ IsWithoutTrailingSlashes(base, config.lmstudio_url)
              /\ upstream_req.url =
                    base \o <<parts.path>>
                    \o (IF parts.query = "" THEN <<>> ELSE <<"?", parts.query>>)

\* C12 witness: a GET with a query under a base URL configured with two
\* trailing slashes went to http://localhost:1234/v1/models?a=1.
C12_Witness ==
    /\ upstream_req.some
    /\ config.lmstudio_url = <<"http://localhost:1234", "/", "/">>
    /\ parts.method = "GET"
    /\ parts.query = "a=1"
    /\ upstream_req.method = "GET"
    /\ upstream_req.url = <<"http://localhost:1234", "/v1/models", "?", "a=1">>

\* C14: the handler calls send() at most once per inbound request: not at
\* all when reading the inbound body fails, once otherwise, and not again
\* after a failed send, a failed read of the upstream body or a failed fix
\* of the request or response body.
C14_AtMostOneUpstreamRequest ==
    /\ Len(sent) <= 1
    /\ (~body_bytes.some \/ InboundReadFailed) => sent = <<>>
    /\ (body_bytes.some /\ body_bytes.ok) => sent = <<upstream_req>>
    /\ (SendHasFailed \/ UpstreamReadFailed) => (pc = "Done" /\ Len(sent) = 1)
    /\ pc = "Done" => response.some

\* C14 witness: the request body did not parse, the upstream answered and
\* reading its body failed: the request ended with one call made.
C14_Witness ==
    /\ pc = "Done"
    /\ InvalidJsonRequest
    /\ UpstreamReadFailed
    /\ Len(sent) = 1
    /\ Returned("Err", 502)

\* C15: the request body is fixed only under a content-type header that
\* contains application/json and when it is not empty; without a
\* content-type, under another content-type, or when the body is empty, the
\* body sent upstream is the inbound body byte for byte, also when it is
\* JSON with a tools array that fix_request_body would complete.
C15_RequestPatchedOnlyIfJson ==
    (upstream_req.some /\ (~ClaimsJson(parts.headers) \/ body_bytes.val = <<>>))
        => upstream_req.body = body_bytes.val

\* C15 witness: a body that fix_request_body changes went upstream
\* unchanged under text/plain.
C15_Witness ==
    /\ upstream_req.some
    /\ "content-type" \in DOMAIN parts.headers
    /\ ~ClaimsJson(parts.headers)
    /\ fix_request_body(body_bytes.val).ok
    /\ fix_request_body(body_bytes.val).val # body_bytes.val
    /\ upstream_req.body = body_bytes.val

(***************************************************************************)
(* Properties of the response path (Spec).                                 *)
(***************************************************************************)
\* Some value of the header, as bytes, contains the text.
HeaderContains(headers, name, text) ==
    /\ name \in DOMAIN headers
    /\ \E i \in 1..Len(headers[name]) : contains(headers[name][i], text)

\* The first value of the header is visible ASCII and contains the text.
FirstValueContains(headers, name, text) ==
    /\ name \in DOMAIN headers
    /\ \A j \in 1..Len(headers[name][1]) : headers[name][1][j] # InvalidByte
    /\ \E j \in 1..Len(headers[name][1]) : headers[name][1][j] = text

UpstreamAnswered == upstream_response.some /\ upstream_response.ok

\* On the non-streaming branch the body changes only under a content-type
\* containing application/json, and is the upstream's byte for byte when
\* the content-type does not contain it or the body is not JSON.
BufferedPassThrough ==
    (UpstreamAnswered /\ upstream_response.read = "ok") =>
        LET h == upstream_response.headers
            b == upstream_response.body
        IN /\ response.body # b => HeaderContains(h, "content-type", "application/json")
           /\ (~HeaderContains(h, "content-type", "application/json")
                  \/ ~from_slice(b).ok) => response.body = b

\* C16 as stated: the handler streams exactly when the upstream content-type
\* contains text/event-stream and buffers otherwise; buffered bodies pass
\* through as BufferedPassThrough says.
C16_BranchOnContentType ==
    /\ UpstreamAnswered =>
          (upstream_response.read = "stream"
             <=> HeaderContains(upstream_response.headers, "content-type",
                                "text/event-stream"))
    /\ BufferedPassThrough

\* C16 (amended): the handler streams exactly when the first content-type
\* value of the upstream response is visible ASCII and contains
\* text/event-stream, and buffers otherwise; buffered bodies pass through as
\* BufferedPassThrough says.
C16_BranchOnFirstContentType ==
    /\ UpstreamAnswered =>
          /\ upstream_response.read = "stream"
                <=> FirstValueContains(upstream_response.headers, "content-type",
                                       "text/event-stream")
          /\ (response.some /\ response.result = "Ok") =>
                (response.streaming <=> upstream_response.read = "stream")
          /\ upstream_response.read \in {"stream", "pending", "ok", "err"}
    /\ BufferedPassThrough

\* C16 witness: a response whose second content-type value is
\* text/event-stream was buffered, and its JSON body patched.
C16_Witness ==
    /\ UpstreamAnswered
    /\ upstream_response.read = "ok"
    /\ HeaderContains(upstream_response.headers, "content-type", "text/event-stream")
    /\ ~response.streaming
    /\ response.body # upstream_response.body

\* What the mapped stream yields for an upstream chunk: the fixed chunk, or
\* the chunk itself when fix_streaming_chunk fails on it; tabulated over the
\* chunks of the model.
EmittedFor ==
    [chunk \in StreamChunks |->
        LET fixed == fix_streaming_chunk(chunk) IN
        Ok(IF fixed.ok THEN fixed.val ELSE chunk)]

\* C17: the client stream has one item per upstream item, in the same
\* order: for a chunk the fixed chunk, or the chunk itself when the fix
\* fails on it; for a transport error an error, which is the last item: the
\* stream has ended and nothing follows.
C17_StreamIsOrderedImage ==
    /\ Len(client_chunks) = Len(upstream_chunks)
    /\ \A i \in 1..Len(upstream_chunks) :
          IF upstream_chunks[i] = Err
          THEN /\ client_chunks[i] = Err
               /\ i = Len(upstream_chunks)
               /\ pc = "Done"
          ELSE client_chunks[i] = EmittedFor[upstream_chunks[i].val]
    /\ upstream_chunks # <<>> => (response.some /\ response.streaming)

\* C17 witness: a chunk was fixed, the next one was not valid UTF-8 and
\* went through as it came, then the transport failed and the stream ended
\* with the error.
C17_Witness ==
    /\ pc = "Done"
    /\ Len(upstream_chunks) = 3
    /\ upstream_chunks[1].ok
    /\ client_chunks[1] # upstream_chunks[1]
    /\ upstream_chunks[2].ok
    /\ ~fix_streaming_chunk(upstream_chunks[2].val).ok
    /\ client_chunks[2] = upstream_chunks[2]
    /\ client_chunks[3] = Err

(***************************************************************************)
(* Properties of the stream as the client decodes it (SpecStream).         *)
(***************************************************************************)
\* The bytes of a stream: its chunks one after the other.
RECURSIVE ConcatChunks(_)
ConcatChunks(items) ==
    IF items = <<>> THEN <<>>
    ELSE (IF items[1].ok THEN items[1].val ELSE <<>>) \o ConcatChunks(Tail(items))

\* The complete lines of a byte string (lines end with "\n").
RECURSIVE SseLines(_, _, _)
SseLines(bytes, line, lines) ==
    IF bytes = <<>> THEN lines
    ELSE IF bytes[1] = "\n" THEN SseLines(Tail(bytes), <<>>, Append(lines, line))
    ELSE SseLines(Tail(bytes), Append(line, bytes[1]), lines)

\* The data of the events an SSE client dispatches: a blank line dispatches
\* the data lines gathered since the last one, joined by "\n"; other lines
\* carry no data.
RECURSIVE SseEvents(_, _, _, _)
SseEvents(lines, data, gathered, events) ==
    IF lines = <<>> THEN events
    ELSE LET line == lines[1] IN
         IF line = <<>>
         THEN SseEvents(Tail(lines), <<>>, FALSE,
                        IF gathered THEN Append(events, data) ELSE events)
         ELSE IF starts_with_data(line) \/ line[1] = "data:"
         THEN LET value == IF starts_with_data(line)
                           THEN SubSeq(line, data_prefix_len(line) + 1, Len(line))
                           ELSE Tail(line)
              IN SseEvents(Tail(lines),
                           IF gathered THEN data \o <<"\n">> \o value ELSE value,
                           TRUE, events)
         ELSE SseEvents(Tail(lines), data, gathered, events)

SseDecode(bytes) == SseEvents(SseLines(bytes, <<>>, <<>>), <<>>, FALSE, <<>>)

\* The data is the same, or JSON to which only the missing usage detail
\* fields were added.
SameOrCompleted(din, dout) ==
    \/ dout = din
    \/ /\ from_slice(din).ok
       /\ from_slice(dout).ok
       /\ from_slice(dout).val = patch_streaming(from_slice(din).val)

\* C19: however the transport cuts the SSE byte stream into chunks, the
\* chunks emitted decode, once the stream has ended, to as many events as
\* the upstream's bytes, each with the same data or with the original JSON
\* plus the usage detail fields.
C19_StreamDecodesToSameEvents ==
    (fn = "bytes_stream" /\ pc = "Done") =>
        LET ein == SseDecode(ConcatChunks(upstream_chunks))
            eout == SseDecode(ConcatChunks(client_chunks))
        IN /\ Len(eout) = Len(ein)
           /\ \A i \in 1..Len(ein) : SameOrCompleted(ein[i], eout[i])

(***************************************************************************)
(* Properties of concurrent handlers (SpecServe).                          *)
(***************************************************************************)
\* What a handler returns and emits when it is the only one running, as a
\* function of the configuration and of what it alone received: its head,
\* its body, the upstream's answer to it and the chunks of its stream.
\* The three are tabulated over the inputs of SpecServe.
AloneRequestTable ==
    [c \in Configs |-> [p \in ServeParts |-> [b \in ServeBodies |->
        build_upstream_req(c, p, b)]]]

AloneRequest(s) == AloneRequestTable[config][s.parts][s.body_bytes.val]

AloneBufferedTable ==
    [h \in ServeUpstreamHeaderMaps |-> [b \in ServeUpstreamBodies |->
        buffered_response(200, h, b)]]

AloneResponse(s) ==
    CASE ~s.body_bytes.ok -> ErrResponse(400)
      [] ~s.upstream_response.ok -> ErrResponse(502)
      [] s.upstream_response.read = "err" -> ErrResponse(502)
      [] s.upstream_response.read = "stream" ->
           streaming_response(s.upstream_response.status, s.upstream_response.headers)
      [] OTHER ->
           AloneBufferedTable[s.upstream_response.headers][s.upstream_response.body]

AloneChunkTable == [chunk \in ServeChunks |-> Ok(filter_chunk(chunk))]

AloneChunks(s) ==
    [i \in 1..Len(s.upstream_chunks) |->
        IF s.upstream_chunks[i] = Err THEN Err
        ELSE AloneChunkTable[s.upstream_chunks[i].val]]

HandledAsAlone(s) ==
    /\ s.config.some => s.config = config
    /\ IF s.body_bytes.some /\ s.body_bytes.ok
       THEN s.upstream_req = AloneRequest(s) /\ s.sent = <<AloneRequest(s)>>
       ELSE s.upstream_req = None /\ s.sent = <<>>
    /\ s.response.some => s.response = AloneResponse(s)
    /\ s.pc = "Done" => s.response.some
    /\ s.client_chunks = AloneChunks(s)

StaticsSet == config.some /\ http_client.some

\* C13: CONFIG and HTTP_CLIENT are set before any request is served and
\* never change once set, and under every interleaving of the handlers in
\* flight each one's upstream request, response and emitted chunks are
\* those it produces alone from its own inputs.
C13_RequestsIndependent ==
    [][/\ config.some => config' = config
       /\ http_client.some => http_client' = http_client
       /\ main' = "serve" => StaticsSet'
       /\ tasks' # <<>> => (main' = "serve" /\ StaticsSet')
       /\ \A t \in 1..Len(tasks') : HandledAsAlone(tasks'[t])]_vars

\* C13 witness: two requests overlapped; the one accepted first finished
\* last, with a patched buffered response, while the other had streamed a
\* chunk and ended.
C13_Witness ==
    /\ Len(tasks) >= 2
    /\ tasks[1].parts # tasks[2].parts
    /\ tasks[1].pc = "Done"
    /\ tasks[1].upstream_response.some
    /\ tasks[1].upstream_response.read = "ok"
    /\ tasks[1].response.body # tasks[1].upstream_response.body
    /\ tasks[2].pc = "Done"
    /\ Len(tasks[2].client_chunks) = 1
    /\ tasks[2].upstream_req.url # tasks[1].upstream_req.url

=============================================================================
